---- MODULE Spec2Model ----
(***************************************************************************)
(* Model of the Python filter-plugin bridge                                *)
(*   src/C/services/filter-plugin-interfaces/python/                       *)
(*       python_plugin_interface.cpp                                       *)
(*                                                                         *)
(* Host threads call the four extern "C" functions of the file.  Every     *)
(* function is cut into steps at the statements that touch shared state    *)
(* (pModule, the embedded runtime and its global execution lock, the       *)
(* logger).  A thread's frame fr[t] holds its program counter, arguments   *)
(* and locals; the frame of a finished call is kept (pc = "done") until    *)
(* the thread starts its next call, so the result of a call is observable. *)
(*                                                                         *)
(* The embedded runtime is modelled by what the bridge relies on: a global *)
(* execution lock (gil), a pending-error indicator (pyErr), the imported   *)
(* module's attributes (modAttr) and script callables that run in two      *)
(* steps (read the script-side counter, write it back incremented).        *)
(***************************************************************************)
EXTENDS Integers, Sequences, FiniteSets, TLC

\* ---------------------------------------------------------------- bounds
NumThreads == 2          \* host threads calling into the bridge
MaxCalls   == 2          \* dispatcher and resolver calls the host starts
MaxBatch   == 2          \* readings in the largest batch handed to ingest

Threads == 1..NumThreads

\* A ReadingSet holds distinct Reading objects; reading i is the i-th one.
Batches == { [i \in 1..n |-> i] : n \in 0..MaxBatch }

\* The names PluginInterfaceResolveSymbol is asked for.
Symbols == { "plugin_info", "plugin_init", "plugin_shutdown",
             "plugin_reconfigure", "plugin_ingest", "plugin_start",
             "not_a_real_symbol" }

\* What a module attribute can be.
AttrKinds == { "absent", "notcallable", "callable" }

VARIABLES
    pModule,      \* "NULL" or "MOD": the global PyObject* pModule
    sPluginName,  \* the global plugin name
    pyInit,       \* the embedded runtime has been brought up
    gil,          \* thread holding the global execution lock, 0 when free
    pyErr,        \* the runtime's pending-error indicator
    modAttr,      \* attributes of the imported shim module
    counter,      \* script-side counter, incremented once per plugin_ingest
    nInvoked,     \* number of times script plugin_ingest has been entered
    scriptOut,    \* the script holds the wrapped output handle and callback
    scriptCfg,    \* configuration the script holds, written in two halves
    nCalls,       \* calls started so far
    initStarted,  \* PluginInterfaceInit has been called
    aborted,      \* the process has been terminated by a native fault
    fr            \* per-thread call frame

vars == << pModule, sPluginName, pyInit, gil, pyErr, modAttr, counter,
           nInvoked, scriptOut, scriptCfg, nCalls, initStarted, aborted, fr >>

globals == << pModule, sPluginName, pyInit, gil, pyErr, modAttr, counter,
              nInvoked, scriptOut, scriptCfg, aborted >>

\* ------------------------------------------------------------ frames
NullList == [ null |-> TRUE, items |-> << >> ]
NoData   == [ alloc |-> "none", recs |-> << >> ]

NewFrame(o) ==
    [ pc |-> "idle", op |-> o, ret |-> "none", log |-> << >>,
      handle |-> "NULL", data |-> NoData, outHandle |-> "NULL", sym |-> "",
      pFunc |-> "NULL", readingsList |-> NullList, pReturn |-> "NULL",
      ingest_fn |-> "NULL", ingest_ref |-> "NULL",
      refs |-> {}, pyArgs |-> << >>, tmp |-> 0,
      invoked |-> FALSE, outcome |-> "none", raised |-> FALSE,
      cb |-> "none", nAcq |-> 0, nRel |-> 0, env |-> "unread" ]

\* Frame fields beyond the arguments and locals of the source:
\*   refs     script-side references the call owns and has not released
\*   pyArgs   the arguments the script callable was entered with
\*   invoked  the script callable was entered
\*   outcome  "value" / "failed": what PyObject_CallFunction gave back
\*   raised   the runtime raised an error during the call
\*   cb       "script" when the script forwarded through the output callback
\*   nAcq, nRel  acquisitions and releases of the execution lock
\*   env      "present" / "absent": what getenv("FOGLAMP_ROOT") gave

\* Replace fields of thread t's frame.
Upd(t, f) == fr' = [fr EXCEPT ![t] = f]

\* Logger::getLogger()->sev(msg) appended to a call's log.
Logged(l, sev, msg) == Append(l, << sev, msg >>)

CountSev(l, sev) == Cardinality({ i \in 1..Len(l) : l[i][1] = sev })

\* A thread is at label l of its call; a terminated process runs nothing.
At(t, l) == ~aborted /\ fr[t].pc = l

\* A thread that is not inside a call may start one.
Outside(t) == fr[t].pc \in { "idle", "done" }

Free(t) == ~aborted /\ Outside(t)

CanStart(t) ==
    /\ Free(t)
    /\ nCalls < MaxCalls

\* The call returns r: arguments and locals go out of scope; what the call
\* logged, returned, leaked and did stays observable.
Return(f, r) ==
    [ f EXCEPT !.pc = "done", !.ret = r, !.handle = "NULL",
               !.data.recs = << >>, !.outHandle = "NULL", !.pFunc = "NULL",
               !.readingsList = NullList, !.pReturn = "NULL",
               !.ingest_fn = "NULL", !.ingest_ref = "NULL",
               !.pyArgs = << >>, !.tmp = 0 ]

\* ------------------------------------------------------ external helpers
\* logErrorMessage(): fetches the runtime's pending error, logs its detail
\* and leaves the error indicator clear.
logErrorMessage_log(l) == Logged(l, "detail", "logErrorMessage")
logErrorMessage_err(e) == FALSE

\* createReadingsList(readings): one script-side dict per reading, in order;
\* an empty vector gives an empty, non-null list.
createReadingsList(recs) ==
    [ null |-> FALSE,
      items |-> [ i \in 1..Len(recs) |-> [ reading |-> recs[i] ] ] ]


\* ------------------------------------------------- runtime execution lock
\* PyGILState_Ensure(): blocks until the lock is free, then takes it.
GilFree == gil = 0
Acquire(t) == gil' = t

\* PyGILState_Release(state) / PyEval_SaveThread(): the caller gives the
\* lock up.
Release(t) == gil' = IF gil = t THEN 0 ELSE gil

\* Py_CLEAR(x): drop the reference and null the variable.
Dropped(f, name) == f.refs \ { name }

\* ------------------------------------------------- PluginInterfaceInit
\* The host calls it once per bridge instantiation.
Call_PluginInterfaceInit(t) ==
    /\ Free(t)
    /\ ~initStarted
    /\ initStarted' = TRUE
    /\ nCalls' = nCalls
    /\ Upd(t, [NewFrame("PluginInterfaceInit") EXCEPT !.pc = "pi_setname"])
    /\ UNCHANGED globals

\* line 225: sPluginName = pluginName
pi_setname(t) ==
    /\ At(t, "pi_setname")
    /\ sPluginName' = "plugin"
    /\ Upd(t, [fr[t] EXCEPT !.pc = "pi_getenv"])
    /\ UNCHANGED << pModule, pyInit, gil, pyErr, modAttr, counter, nInvoked,
                    scriptOut, scriptCfg, nCalls, initStarted, aborted >>

\* line 227: string foglampRootDir(getenv("FOGLAMP_ROOT")).  With the
\* variable unset the string is constructed from a null pointer, which is
\* undefined: the build either terminates the process or throws out of the
\* function.
pi_getenv(t) ==
    /\ At(t, "pi_getenv")
    /\ \E present \in BOOLEAN :
         IF present
         THEN /\ Upd(t, [fr[t] EXCEPT !.pc = "pi_initialize",
                            !.env = "present"])
              /\ aborted' = aborted
         ELSE \/ /\ aborted' = TRUE
                 /\ Upd(t, [fr[t] EXCEPT !.pc = "fault", !.env = "absent"])
              \/ /\ aborted' = aborted
                 /\ Upd(t, Return([fr[t] EXCEPT !.env = "absent"],
                                  "exception"))
    /\ UNCHANGED << pModule, sPluginName, pyInit, gil, pyErr, modAttr,
                    counter, nInvoked, scriptOut, scriptCfg, nCalls, initStarted >>

\* lines 244-245: Py_Initialize(); PyEval_InitThreads() -- the runtime comes
\* up with the calling thread holding the execution lock.
pi_initialize(t) ==
    /\ At(t, "pi_initialize")
    /\ GilFree
    /\ pyInit' = TRUE
    /\ Acquire(t)
    /\ Upd(t, [fr[t] EXCEPT !.pc = "pi_savethread", !.nAcq = @ + 1])
    /\ UNCHANGED << pModule, sPluginName, pyErr, modAttr, counter, nInvoked,
                    scriptOut, scriptCfg, nCalls, initStarted, aborted >>

\* as pi_savethread, but the lock is kept.
pi_savethread_held(t) ==
    /\ At(t, "pi_savethread")
    /\ Upd(t, [fr[t] EXCEPT !.pc = "pi_ensure"])
    /\ UNCHANGED << globals, nCalls, initStarted >>

\* line 246: PyEval_SaveThread() releases the lock.
pi_savethread(t) ==
    /\ At(t, "pi_savethread")
    /\ Release(t)
    /\ Upd(t, [fr[t] EXCEPT !.pc = "pi_ensure", !.nRel = @ + 1])
    /\ UNCHANGED << pModule, sPluginName, pyInit, pyErr, modAttr, counter,
                    nInvoked, scriptOut, scriptCfg, nCalls, initStarted, aborted >>

\* line 247: PyGILState_Ensure()
pi_ensure(t) ==
    /\ At(t, "pi_ensure")
    /\ GilFree
    /\ Acquire(t)
    /\ Upd(t, [fr[t] EXCEPT !.pc = "pi_syspath", !.nAcq = @ + 1])
    /\ UNCHANGED << pModule, sPluginName, pyInit, pyErr, modAttr, counter,
                    nInvoked, scriptOut, scriptCfg, nCalls, initStarted, aborted >>

\* lines 249-261: debug trace, then sys.path gets the shim directory and
\* the shared python directory appended.
pi_syspath(t) ==
    /\ At(t, "pi_syspath")
    /\ Upd(t, [fr[t] EXCEPT !.pc = "pi_argv",
                            !.log = Logged(@, "debug", "shimLayerPath")])
    /\ UNCHANGED << globals, nCalls, initStarted >>

\* lines 264-268: sys.argv = ["", pluginName]
pi_argv(t) ==
    /\ At(t, "pi_argv")
    /\ Upd(t, [fr[t] EXCEPT !.pc = "pi_import"])
    /\ UNCHANGED << globals, nCalls, initStarted >>

\* line 271: PyImport_ImportModule(name) is entered; the shim module's
\* top-level code runs.
pi_import_call(t) ==
    /\ At(t, "pi_import")
    /\ Upd(t, [fr[t] EXCEPT !.pc = "py_import"])
    /\ UNCHANGED << globals, nCalls, initStarted >>

\* line 271: the import returns and its result is stored in pModule: the
\* module with whatever attributes it defines, or NULL with an error pending.
pi_import_return(t) ==
    /\ At(t, "py_import")
    /\ \/ /\ pModule' = "MOD"
          /\ \E a \in AttrKinds, b \in AttrKinds :
               modAttr' = [ plugin_init |-> a, plugin_ingest |-> b ]
          /\ pyErr' = pyErr
       \/ /\ pModule' = "NULL"
          /\ modAttr' = modAttr
          /\ pyErr' = TRUE
    /\ Upd(t, [fr[t] EXCEPT !.pc = "pi_checkmodule",
                            !.raised = (pModule' = "NULL")])
    /\ UNCHANGED << sPluginName, pyInit, gil, counter, nInvoked, scriptOut, scriptCfg,
                    nCalls, initStarted, aborted >>

\* Variant of pi_checkmodule: the failed import is reported at debug level
\* like a loaded module, with no fatal entry and no draining.
pi_checkmodule_silent(t) ==
    /\ At(t, "pi_checkmodule")
    /\ Upd(t, [fr[t] EXCEPT !.pc = "pi_release",
                  !.log = Logged(@, "debug", "module loaded")])
    /\ UNCHANGED << globals, nCalls, initStarted >>

\* lines 274-295: on a null module drain the pending error and log fatal,
\* otherwise log the debug trace.
pi_checkmodule(t) ==
    /\ At(t, "pi_checkmodule")
    /\ IF pModule = "NULL"
       THEN LET l1 == IF pyErr THEN logErrorMessage_log(fr[t].log)
                               ELSE fr[t].log
            IN /\ pyErr' = IF pyErr THEN logErrorMessage_err(pyErr) ELSE pyErr
               /\ Upd(t, [fr[t] EXCEPT !.pc = "pi_release",
                             !.log = Logged(l1, "fatal", "cannot import")])
       ELSE /\ pyErr' = pyErr
            /\ Upd(t, [fr[t] EXCEPT !.pc = "pi_release",
                          !.log = Logged(@, "debug", "module loaded")])
    /\ UNCHANGED << pModule, sPluginName, pyInit, gil, modAttr, counter,
                    nInvoked, scriptOut, scriptCfg, nCalls, initStarted, aborted >>

\* lines 297-299: PyGILState_Release(state); return pModule
pi_release(t) ==
    /\ At(t, "pi_release")
    /\ Release(t)
    /\ Upd(t, Return([fr[t] EXCEPT !.nRel = @ + 1], pModule))
    /\ UNCHANGED << pModule, sPluginName, pyInit, pyErr, modAttr, counter,
                    nInvoked, scriptOut, scriptCfg, nCalls, initStarted, aborted >>

\* ------------------------------------------ PluginInterfaceResolveSymbol
\* Variant of PluginInterfaceResolveSymbol: no branch for plugin_start, so
\* the name falls into the unknown-symbol branch.
ResolveSymbol_nostart(s) ==
    IF s = "plugin_info"
    THEN [ ret |-> "plugin_info_fn", log |-> << >> ]
    ELSE IF s = "plugin_init"
    THEN [ ret |-> "filter_plugin_init_fn", log |-> << >> ]
    ELSE IF s = "plugin_shutdown"
    THEN [ ret |-> "plugin_shutdown_fn", log |-> << >> ]
    ELSE IF s = "plugin_reconfigure"
    THEN [ ret |-> "plugin_reconfigure_fn", log |-> << >> ]
    ELSE IF s = "plugin_ingest"
    THEN [ ret |-> "filter_plugin_ingest_fn", log |-> << >> ]
    ELSE [ ret |-> "NULL",
           log |-> << << "fatal", "can not find symbol" >> >> ]

\* lines 306-334: the function pointer for a name, and what is logged.
PluginInterfaceResolveSymbol(s) ==
    IF s = "plugin_info"
    THEN [ ret |-> "plugin_info_fn", log |-> << >> ]
    ELSE IF s = "plugin_init"
    THEN [ ret |-> "filter_plugin_init_fn", log |-> << >> ]
    ELSE IF s = "plugin_shutdown"
    THEN [ ret |-> "plugin_shutdown_fn", log |-> << >> ]
    ELSE IF s = "plugin_reconfigure"
    THEN [ ret |-> "plugin_reconfigure_fn", log |-> << >> ]
    ELSE IF s = "plugin_ingest"
    THEN [ ret |-> "filter_plugin_ingest_fn", log |-> << >> ]
    ELSE IF s = "plugin_start"
    THEN [ ret |-> "NULL",
           log |-> << << "warn", "does not support plugin_start" >> >> ]
    ELSE [ ret |-> "NULL",
           log |-> << << "fatal", "can not find symbol" >> >> ]

\* as Call_ResolveSymbol, but the resolved name is kept as the plugin name.
Call_ResolveSymbol_keepname(t) ==
    /\ CanStart(t)
    /\ nCalls' = nCalls + 1
    /\ \E s \in Symbols :
         LET r == PluginInterfaceResolveSymbol(s)
         IN /\ Upd(t, [NewFrame("PluginInterfaceResolveSymbol") EXCEPT
                          !.pc = "done", !.sym = s, !.ret = r.ret,
                          !.log = r.log])
            /\ sPluginName' = s
    /\ UNCHANGED << pModule, pyInit, gil, pyErr, modAttr, counter, nInvoked,
                    scriptOut, scriptCfg, aborted, initStarted >>

\* A host thread resolves one name; the call takes no lock and touches no
\* bridge state.
Call_ResolveSymbol(t) ==
    /\ CanStart(t)
    /\ nCalls' = nCalls + 1
    /\ \E s \in Symbols :
         LET r == PluginInterfaceResolveSymbol(s)
         IN Upd(t, [NewFrame("PluginInterfaceResolveSymbol") EXCEPT
                       !.pc = "done", !.sym = s, !.ret = r.ret,
                       !.log = r.log])
    /\ UNCHANGED << globals, initStarted >>


\* ------------------------------------------------ filter_plugin_ingest_fn
\* The host hands over a plugin handle and an owned ReadingSet.  The
\* readings in the set are opaque to the bridge until getAllReadings().
Call_ingest(t) ==
    /\ CanStart(t)
    /\ nCalls' = nCalls + 1
    /\ \E h \in { "NULL", "HANDLE" } :
         Upd(t, [NewFrame("filter_plugin_ingest_fn") EXCEPT
                    !.pc = "ing_checkmodule", !.handle = h,
                    !.data = [ alloc |-> "allocated", recs |-> << >> ]])
    /\ UNCHANGED << globals, initStarted >>

\* Variant of ing_checkmodule: the null check logs but does not return.
ing_checkmodule_fallthrough(t) ==
    /\ At(t, "ing_checkmodule")
    /\ IF pModule = "NULL"
       THEN Upd(t, [fr[t] EXCEPT !.pc = "ing_ensure",
                       !.log = Logged(@, "fatal", "pModule is NULL")])
       ELSE Upd(t, [fr[t] EXCEPT !.pc = "ing_ensure"])
    /\ UNCHANGED << globals, nCalls, initStarted >>

\* lines 55-61: a null module is rejected with one fatal entry.
ing_checkmodule(t) ==
    /\ At(t, "ing_checkmodule")
    /\ IF pModule = "NULL"
       THEN Upd(t, Return([fr[t] EXCEPT
                       !.log = Logged(@, "fatal", "pModule is NULL")], "void"))
       ELSE Upd(t, [fr[t] EXCEPT !.pc = "ing_ensure"])
    /\ UNCHANGED << globals, nCalls, initStarted >>

\* Variant of ing_ensure: the lock is never taken before the lookup.
ing_ensure_unlocked(t) ==
    /\ At(t, "ing_ensure")
    /\ Upd(t, [fr[t] EXCEPT !.pc = "ing_getattr"])
    /\ UNCHANGED << globals, nCalls, initStarted >>

\* line 63: PyGILState_Ensure()
ing_ensure(t) ==
    /\ At(t, "ing_ensure")
    /\ GilFree
    /\ Acquire(t)
    /\ Upd(t, [fr[t] EXCEPT !.pc = "ing_getattr", !.nAcq = @ + 1])
    /\ UNCHANGED << pModule, sPluginName, pyInit, pyErr, modAttr, counter,
                    nInvoked, scriptOut, scriptCfg, nCalls, initStarted, aborted >>

\* as ing_getattr, but an absent attribute is not logged here.
ing_getattr_quiet(t) ==
    /\ At(t, "ing_getattr")
    /\ IF modAttr.plugin_ingest = "absent"
       THEN /\ pyErr' = TRUE
            /\ Upd(t, [fr[t] EXCEPT !.pc = "ing_callable", !.pFunc = "NULL",
                          !.raised = TRUE])
       ELSE /\ pyErr' = pyErr
            /\ Upd(t, [fr[t] EXCEPT !.pc = "ing_callable",
                          !.pFunc = modAttr.plugin_ingest,
                          !.refs = @ \cup { "pFunc" }])
    /\ UNCHANGED << pModule, sPluginName, pyInit, gil, modAttr, counter,
                    nInvoked, scriptOut, scriptCfg, nCalls, initStarted,
                    aborted >>

\* lines 65-71: PyObject_GetAttrString(pModule, "plugin_ingest"); an absent
\* attribute gives NULL with an error pending and is logged fatal.
ing_getattr(t) ==
    /\ At(t, "ing_getattr")
    /\ IF modAttr.plugin_ingest = "absent"
       THEN /\ pyErr' = TRUE
            /\ Upd(t, [fr[t] EXCEPT !.pc = "ing_callable", !.pFunc = "NULL",
                          !.raised = TRUE,
                          !.log = Logged(@, "fatal", "Cannot find")])
       ELSE /\ pyErr' = pyErr
            /\ Upd(t, [fr[t] EXCEPT !.pc = "ing_callable",
                          !.pFunc = modAttr.plugin_ingest,
                          !.refs = @ \cup { "pFunc" }])
    /\ UNCHANGED << pModule, sPluginName, pyInit, gil, modAttr, counter,
                    nInvoked, scriptOut, scriptCfg, nCalls, initStarted, aborted >>

\* Variant of ing_callable: only the null test, PyCallable_Check left out.
ing_callable_unchecked(t) ==
    /\ At(t, "ing_callable")
    /\ Upd(t, [fr[t] EXCEPT !.pc = IF fr[t].pFunc = "NULL"
                                   THEN "ing_fail" ELSE "ing_marshal"])
    /\ UNCHANGED << globals, nCalls, initStarted >>

\* line 72: !pFunc || !PyCallable_Check(pFunc)
ing_callable(t) ==
    /\ At(t, "ing_callable")
    /\ Upd(t, [fr[t] EXCEPT !.pc = IF fr[t].pFunc # "callable"
                                   THEN "ing_fail" ELSE "ing_marshal"])
    /\ UNCHANGED << globals, nCalls, initStarted >>

\* lines 75-83: drain a pending error, log fatal, Py_CLEAR(pFunc)
ing_fail(t) ==
    /\ At(t, "ing_fail")
    /\ LET l1 == IF pyErr THEN logErrorMessage_log(fr[t].log) ELSE fr[t].log
       IN Upd(t, [fr[t] EXCEPT !.pc = "ing_fail_release",
                     !.log = Logged(l1, "fatal", "Cannot call"),
                     !.pFunc = "NULL", !.refs = Dropped(fr[t], "pFunc")])
    /\ pyErr' = IF pyErr THEN logErrorMessage_err(pyErr) ELSE pyErr
    /\ UNCHANGED << pModule, sPluginName, pyInit, gil, modAttr, counter,
                    nInvoked, scriptOut, scriptCfg, nCalls, initStarted, aborted >>

\* Variant of ing_fail_release: the early return forgets the release.
ing_fail_release_leak(t) ==
    /\ At(t, "ing_fail_release")
    /\ Upd(t, Return(fr[t], "void"))
    /\ UNCHANGED << globals, nCalls, initStarted >>

\* lines 85-86: PyGILState_Release(state); return
ing_fail_release(t) ==
    /\ At(t, "ing_fail_release")
    /\ Release(t)
    /\ Upd(t, Return([fr[t] EXCEPT !.nRel = @ + 1], "void"))
    /\ UNCHANGED << pModule, sPluginName, pyInit, pyErr, modAttr, counter,
                    nInvoked, scriptOut, scriptCfg, nCalls, initStarted, aborted >>

\* as ing_marshal, but the last reading of the batch is not marshalled.
ing_marshal_truncated(t) ==
    /\ At(t, "ing_marshal")
    /\ \E b \in Batches :
         Upd(t, [fr[t] EXCEPT !.pc = "ing_call",
                    !.data.recs = b,
                    !.readingsList =
                        createReadingsList(SubSeq(b, 1, Len(b) - 1)),
                    !.refs = @ \cup { "readingsList" }])
    /\ UNCHANGED << globals, nCalls, initStarted >>

\* lines 91-92: readingsList = createReadingsList(data->getAllReadings());
\* the set turns out to hold some batch b of readings.
ing_marshal(t) ==
    /\ At(t, "ing_marshal")
    /\ \E b \in Batches :
         Upd(t, [fr[t] EXCEPT !.pc = "ing_call",
                    !.data.recs = b,
                    !.readingsList = createReadingsList(b),
                    !.refs = @ \cup { "readingsList" }])
    /\ UNCHANGED << globals, nCalls, initStarted >>

\* lines 94-97: PyObject_CallFunction(pFunc, "OO", handle, readingsList).
\* A null argument makes the argument tuple fail to build: the call returns
\* NULL with an error pending and the callable is not entered.
ing_call(t) ==
    /\ At(t, "ing_call")
    /\ IF fr[t].handle = "NULL" \/ fr[t].readingsList.null
       THEN /\ pyErr' = TRUE
            /\ nInvoked' = nInvoked
            /\ Upd(t, [fr[t] EXCEPT !.pc = "ing_clearfunc",
                          !.pReturn = "NULL", !.outcome = "failed",
                          !.raised = TRUE])
       ELSE /\ pyErr' = pyErr
            /\ nInvoked' = nInvoked + 1
            /\ Upd(t, [fr[t] EXCEPT !.pc = "py_ingest_read",
                          !.invoked = TRUE,
                          !.pyArgs = << fr[t].handle,
                                        fr[t].readingsList.items >>])
    /\ UNCHANGED << pModule, sPluginName, pyInit, gil, modAttr, counter,
                    scriptOut, scriptCfg, nCalls, initStarted, aborted >>

\* script plugin_ingest, first half: read the script-side counter.
py_ingest_read(t) ==
    /\ At(t, "py_ingest_read")
    /\ Upd(t, [fr[t] EXCEPT !.pc = "py_ingest_write", !.tmp = counter])
    /\ UNCHANGED << globals, nCalls, initStarted >>

\* script plugin_ingest, second half: write the counter back incremented,
\* maybe forward a batch through the wrapped output callback, then return a
\* value or raise.
py_ingest_write(t) ==
    /\ At(t, "py_ingest_write")
    /\ counter' = fr[t].tmp + 1
    /\ \E ok \in BOOLEAN, forward \in BOOLEAN :
         /\ pyErr' = (pyErr \/ ~ok)
         /\ Upd(t, [fr[t] EXCEPT !.pc = "ing_clearfunc",
                       !.cb = IF forward /\ scriptOut THEN "script" ELSE @,
                       !.outcome = IF ok THEN "value" ELSE "failed",
                       !.raised = (@ \/ ~ok),
                       !.pReturn = IF ok THEN "RESULT" ELSE "NULL",
                       !.refs = IF ok THEN @ \cup { "pReturn" } ELSE @])
    /\ UNCHANGED << pModule, sPluginName, pyInit, gil, modAttr, nInvoked,
                    scriptOut, scriptCfg, nCalls, initStarted, aborted >>

\* line 98: Py_CLEAR(pFunc)
ing_clearfunc(t) ==
    /\ At(t, "ing_clearfunc")
    /\ Upd(t, [fr[t] EXCEPT !.pc = "ing_delete", !.pFunc = "NULL",
                  !.refs = Dropped(fr[t], "pFunc")])
    /\ UNCHANGED << globals, nCalls, initStarted >>

\* Variant of ing_delete: the batch is never deleted.
ing_delete_skipped(t) ==
    /\ At(t, "ing_delete")
    /\ Upd(t, [fr[t] EXCEPT !.pc = "ing_result"])
    /\ UNCHANGED << globals, nCalls, initStarted >>

\* lines 100-101: delete (ReadingSet *)data
ing_delete(t) ==
    /\ At(t, "ing_delete")
    /\ Upd(t, [fr[t] EXCEPT !.pc = "ing_result",
                  !.data = [ alloc |-> "freed", recs |-> << >> ]])
    /\ UNCHANGED << globals, nCalls, initStarted >>

\* Variant of ing_result: the error entry is written but the pending error
\* is left in the runtime.
ing_result_undrained(t) ==
    /\ At(t, "ing_result")
    /\ IF fr[t].pReturn = "NULL"
       THEN Upd(t, [fr[t] EXCEPT !.pc = "ing_clearret",
                       !.readingsList = NullList,
                       !.refs = Dropped(fr[t], "readingsList"),
                       !.log = Logged(@, "error", "plugin_ingest")])
       ELSE Upd(t, [fr[t] EXCEPT !.pc = "ing_clearret",
                       !.log = Logged(@, "debug", "got result object")])
    /\ UNCHANGED << globals, nCalls, initStarted >>

\* lines 104-118: no result -> Py_CLEAR(readingsList), error entry, drain
\* the pending error; a result -> debug entry.
ing_result(t) ==
    /\ At(t, "ing_result")
    /\ IF fr[t].pReturn = "NULL"
       THEN /\ pyErr' = logErrorMessage_err(pyErr)
            /\ Upd(t, [fr[t] EXCEPT !.pc = "ing_clearret",
                          !.readingsList = NullList,
                          !.refs = Dropped(fr[t], "readingsList"),
                          !.log = logErrorMessage_log(
                                     Logged(@, "error", "plugin_ingest"))])
       ELSE /\ pyErr' = pyErr
            /\ Upd(t, [fr[t] EXCEPT !.pc = "ing_clearret",
                          !.log = Logged(@, "debug", "got result object")])
    /\ UNCHANGED << pModule, sPluginName, pyInit, gil, modAttr, counter,
                    nInvoked, scriptOut, scriptCfg, nCalls, initStarted, aborted >>

\* line 119: Py_CLEAR(pReturn)
ing_clearret(t) ==
    /\ At(t, "ing_clearret")
    /\ Upd(t, [fr[t] EXCEPT !.pc = "ing_release", !.pReturn = "NULL",
                  !.refs = Dropped(fr[t], "pReturn")])
    /\ UNCHANGED << globals, nCalls, initStarted >>

\* lines 120-121: PyGILState_Release(state); return
ing_release(t) ==
    /\ At(t, "ing_release")
    /\ Release(t)
    /\ Upd(t, Return([fr[t] EXCEPT !.nRel = @ + 1], "void"))
    /\ UNCHANGED << pModule, sPluginName, pyInit, pyErr, modAttr, counter,
                    nInvoked, scriptOut, scriptCfg, nCalls, initStarted, aborted >>


\* -------------------------------------------------- filter_plugin_init_fn
\* The host passes the configuration, an output handle and the output
\* stream function pointer.
Call_init(t) ==
    /\ CanStart(t)
    /\ nCalls' = nCalls + 1
    /\ \E oh \in { "NULL", "OUT" } :
         Upd(t, [NewFrame("filter_plugin_init_fn") EXCEPT
                    !.pc = "init_checkmodule", !.outHandle = oh])
    /\ UNCHANGED << globals, initStarted >>

\* lines 143-149: a null module is rejected with one fatal entry.
init_checkmodule(t) ==
    /\ At(t, "init_checkmodule")
    /\ IF pModule = "NULL"
       THEN Upd(t, Return([fr[t] EXCEPT
                       !.log = Logged(@, "fatal", "pModule is NULL")], "NULL"))
       ELSE Upd(t, [fr[t] EXCEPT !.pc = "init_ensure"])
    /\ UNCHANGED << globals, nCalls, initStarted >>

\* line 151: PyGILState_Ensure()
init_ensure(t) ==
    /\ At(t, "init_ensure")
    /\ GilFree
    /\ Acquire(t)
    /\ Upd(t, [fr[t] EXCEPT !.pc = "init_getattr", !.nAcq = @ + 1])
    /\ UNCHANGED << pModule, sPluginName, pyInit, pyErr, modAttr, counter,
                    nInvoked, scriptOut, scriptCfg, nCalls, initStarted, aborted >>

\* lines 154-160: PyObject_GetAttrString(pModule, "plugin_init")
init_getattr(t) ==
    /\ At(t, "init_getattr")
    /\ IF modAttr.plugin_init = "absent"
       THEN /\ pyErr' = TRUE
            /\ Upd(t, [fr[t] EXCEPT !.pc = "init_callable", !.pFunc = "NULL",
                          !.raised = TRUE,
                          !.log = Logged(@, "fatal", "Cannot find")])
       ELSE /\ pyErr' = pyErr
            /\ Upd(t, [fr[t] EXCEPT !.pc = "init_callable",
                          !.pFunc = modAttr.plugin_init,
                          !.refs = @ \cup { "pFunc" }])
    /\ UNCHANGED << pModule, sPluginName, pyInit, gil, modAttr, counter,
                    nInvoked, scriptOut, scriptCfg, nCalls, initStarted, aborted >>

\* line 162: !pFunc || !PyCallable_Check(pFunc)
init_callable(t) ==
    /\ At(t, "init_callable")
    /\ Upd(t, [fr[t] EXCEPT !.pc = IF fr[t].pFunc # "callable"
                                   THEN "init_fail" ELSE "init_capsules"])
    /\ UNCHANGED << globals, nCalls, initStarted >>

\* lines 165-173: drain a pending error, log fatal, Py_CLEAR(pFunc)
init_fail(t) ==
    /\ At(t, "init_fail")
    /\ LET l1 == IF pyErr THEN logErrorMessage_log(fr[t].log) ELSE fr[t].log
       IN Upd(t, [fr[t] EXCEPT !.pc = "init_fail_release",
                     !.log = Logged(l1, "fatal", "Cannot call"),
                     !.pFunc = "NULL", !.refs = Dropped(fr[t], "pFunc")])
    /\ pyErr' = IF pyErr THEN logErrorMessage_err(pyErr) ELSE pyErr
    /\ UNCHANGED << pModule, sPluginName, pyInit, gil, modAttr, counter,
                    nInvoked, scriptOut, scriptCfg, nCalls, initStarted, aborted >>

\* lines 175-176: PyGILState_Release(state); return NULL
init_fail_release(t) ==
    /\ At(t, "init_fail_release")
    /\ Release(t)
    /\ Upd(t, Return([fr[t] EXCEPT !.nRel = @ + 1], "NULL"))
    /\ UNCHANGED << pModule, sPluginName, pyInit, pyErr, modAttr, counter,
                    nInvoked, scriptOut, scriptCfg, nCalls, initStarted, aborted >>

\* lines 180-181: PyCapsule_New around the output stream and the output
\* handle; a capsule around a null pointer is NULL with an error pending.
init_capsules(t) ==
    /\ At(t, "init_capsules")
    /\ IF fr[t].outHandle = "NULL"
       THEN /\ pyErr' = TRUE
            /\ Upd(t, [fr[t] EXCEPT !.pc = "init_call", !.raised = TRUE,
                          !.ingest_fn = "CAP_OUTPUT", !.ingest_ref = "NULL",
                          !.refs = @ \cup { "ingest_fn" }])
       ELSE /\ pyErr' = pyErr
            /\ Upd(t, [fr[t] EXCEPT !.pc = "init_call",
                          !.ingest_fn = "CAP_OUTPUT",
                          !.ingest_ref = "CAP_OUTHANDLE",
                          !.refs = @ \cup { "ingest_fn", "ingest_ref" }])
    /\ UNCHANGED << pModule, sPluginName, pyInit, gil, modAttr, counter,
                    nInvoked, scriptOut, scriptCfg, nCalls, initStarted, aborted >>

\* as init_call, but the two wrapped references are passed in the other
\* order.
init_call_swapped(t) ==
    /\ At(t, "init_call")
    /\ IF fr[t].ingest_ref = "NULL" \/ fr[t].ingest_fn = "NULL"
       THEN /\ pyErr' = TRUE
            /\ Upd(t, [fr[t] EXCEPT !.pc = "init_clear", !.pReturn = "NULL",
                          !.outcome = "failed", !.raised = TRUE])
       ELSE /\ pyErr' = pyErr
            /\ Upd(t, [fr[t] EXCEPT !.pc = "py_init", !.invoked = TRUE,
                          !.pyArgs = << "config", fr[t].ingest_fn,
                                        fr[t].ingest_ref >>])
    /\ UNCHANGED << pModule, sPluginName, pyInit, gil, modAttr, counter,
                    nInvoked, scriptOut, scriptCfg, nCalls, initStarted,
                    aborted >>

\* lines 182-186: PyObject_CallFunction(pFunc, "sOO", config JSON,
\* ingest_ref, ingest_fn); a null argument fails the call before the
\* callable is entered.
init_call(t) ==
    /\ At(t, "init_call")
    /\ IF fr[t].ingest_ref = "NULL" \/ fr[t].ingest_fn = "NULL"
       THEN /\ pyErr' = TRUE
            /\ Upd(t, [fr[t] EXCEPT !.pc = "init_clear", !.pReturn = "NULL",
                          !.outcome = "failed", !.raised = TRUE])
       ELSE /\ pyErr' = pyErr
            /\ Upd(t, [fr[t] EXCEPT !.pc = "py_init", !.invoked = TRUE,
                          !.pyArgs = << "config", fr[t].ingest_ref,
                                        fr[t].ingest_fn >>])
    /\ UNCHANGED << pModule, sPluginName, pyInit, gil, modAttr, counter,
                    nInvoked, scriptOut, scriptCfg, nCalls, initStarted, aborted >>

\* script plugin_init: keeps the wrapped output pair and returns the plugin
\* handle, or raises.
py_init(t) ==
    /\ At(t, "py_init")
    /\ \E ok \in BOOLEAN, kept \in BOOLEAN :
         /\ pyErr' = (pyErr \/ ~ok)
         /\ scriptOut' = (scriptOut \/ ok \/ kept)
         /\ Upd(t, [fr[t] EXCEPT !.pc = "init_clear",
                       !.outcome = IF ok THEN "value" ELSE "failed",
                       !.raised = (@ \/ ~ok),
                       !.pReturn = IF ok THEN "HANDLE" ELSE "NULL",
                       !.refs = IF ok THEN @ \cup { "pReturn" } ELSE @])
    /\ UNCHANGED << pModule, sPluginName, pyInit, gil, modAttr, counter,
                    nInvoked, scriptCfg, nCalls, initStarted, aborted >>

\* lines 188-190: Py_CLEAR(pFunc); Py_CLEAR(ingest_ref); Py_CLEAR(ingest_fn)
init_clear(t) ==
    /\ At(t, "init_clear")
    /\ Upd(t, [fr[t] EXCEPT !.pc = "init_result", !.pFunc = "NULL",
                  !.ingest_ref = "NULL", !.ingest_fn = "NULL",
                  !.refs = @ \ { "pFunc", "ingest_ref", "ingest_fn" }])
    /\ UNCHANGED << globals, nCalls, initStarted >>

\* Variant of init_result: a failed invocation is logged at fatal severity.
init_result_fatal(t) ==
    /\ At(t, "init_result")
    /\ IF fr[t].pReturn = "NULL"
       THEN /\ pyErr' = logErrorMessage_err(pyErr)
            /\ Upd(t, [fr[t] EXCEPT !.pc = "init_release",
                          !.log = logErrorMessage_log(
                                     Logged(@, "fatal", "plugin_init"))])
       ELSE /\ pyErr' = pyErr
            /\ Upd(t, [fr[t] EXCEPT !.pc = "init_release",
                          !.log = Logged(@, "debug", "got result object")])
    /\ UNCHANGED << pModule, sPluginName, pyInit, gil, modAttr, counter,
                    nInvoked, scriptOut, scriptCfg, nCalls, initStarted, aborted >>

\* lines 194-207: no result -> error entry and drain the pending error;
\* a result -> debug entry.
init_result(t) ==
    /\ At(t, "init_result")
    /\ IF fr[t].pReturn = "NULL"
       THEN /\ pyErr' = logErrorMessage_err(pyErr)
            /\ Upd(t, [fr[t] EXCEPT !.pc = "init_release",
                          !.log = logErrorMessage_log(
                                     Logged(@, "error", "plugin_init"))])
       ELSE /\ pyErr' = pyErr
            /\ Upd(t, [fr[t] EXCEPT !.pc = "init_release",
                          !.log = Logged(@, "debug", "got result object")])
    /\ UNCHANGED << pModule, sPluginName, pyInit, gil, modAttr, counter,
                    nInvoked, scriptOut, scriptCfg, nCalls, initStarted, aborted >>

\* lines 208-210: PyGILState_Release(state); return (PLUGIN_HANDLE)pReturn
init_release(t) ==
    /\ At(t, "init_release")
    /\ Release(t)
    /\ Upd(t, Return([fr[t] EXCEPT !.nRel = @ + 1], fr[t].pReturn))
    /\ UNCHANGED << pModule, sPluginName, pyInit, pyErr, modAttr, counter,
                    nInvoked, scriptOut, scriptCfg, nCalls, initStarted, aborted >>

\* -------------------------------------------------- plugin_reconfigure_fn
\* The reconfigure dispatcher is declared at line 44 and handed out by
\* PluginInterfaceResolveSymbol (lines 315-316); its body follows the common
\* dispatcher shape: module check, lock, callable lookup, marshal the new
\* configuration text, invoke, log, release the lock last, return nothing.
Call_reconfigure(t) ==
    /\ CanStart(t)
    /\ nCalls' = nCalls + 1
    /\ Upd(t, [NewFrame("plugin_reconfigure_fn") EXCEPT
                  !.pc = "rc_checkmodule"])
    /\ UNCHANGED << globals, initStarted >>

\* a null module is rejected with one fatal entry.
rc_checkmodule(t) ==
    /\ At(t, "rc_checkmodule")
    /\ IF pModule = "NULL"
       THEN Upd(t, Return([fr[t] EXCEPT
                       !.log = Logged(@, "fatal", "pModule is NULL")], "void"))
       ELSE Upd(t, [fr[t] EXCEPT !.pc = "rc_ensure"])
    /\ UNCHANGED << globals, nCalls, initStarted >>

\* the execution lock is taken.
rc_ensure(t) ==
    /\ At(t, "rc_ensure")
    /\ GilFree
    /\ Acquire(t)
    /\ Upd(t, [fr[t] EXCEPT !.pc = "rc_getattr", !.nAcq = @ + 1])
    /\ UNCHANGED << pModule, sPluginName, pyInit, pyErr, modAttr, counter,
                    nInvoked, scriptOut, scriptCfg, nCalls, initStarted,
                    aborted >>

\* plugin_reconfigure is looked up and tested for being invocable; what the
\* module holds under that name is drawn at the lookup.
rc_getattr(t) ==
    /\ At(t, "rc_getattr")
    /\ \E k \in AttrKinds :
         IF k = "absent"
         THEN /\ pyErr' = TRUE
              /\ Upd(t, [fr[t] EXCEPT !.pc = "rc_fail", !.pFunc = "NULL",
                            !.raised = TRUE])
         ELSE /\ pyErr' = pyErr
              /\ Upd(t, [fr[t] EXCEPT
                            !.pc = IF k = "callable" THEN "rc_call"
                                   ELSE "rc_fail",
                            !.pFunc = k,
                            !.refs = @ \cup { "pFunc" }])
    /\ UNCHANGED << pModule, sPluginName, pyInit, gil, modAttr, counter,
                    nInvoked, scriptOut, scriptCfg, nCalls, initStarted,
                    aborted >>

\* missing callable: drain a pending error, log fatal, drop the reference,
\* release the lock and return.
rc_fail(t) ==
    /\ At(t, "rc_fail")
    /\ LET l1 == IF pyErr THEN logErrorMessage_log(fr[t].log) ELSE fr[t].log
       IN Upd(t, Return([fr[t] EXCEPT
                     !.log = Logged(l1, "fatal", "Cannot call"),
                     !.refs = Dropped(fr[t], "pFunc"),
                     !.nRel = @ + 1], "void"))
    /\ pyErr' = IF pyErr THEN logErrorMessage_err(pyErr) ELSE pyErr
    /\ Release(t)
    /\ UNCHANGED << pModule, sPluginName, pyInit, modAttr, counter,
                    nInvoked, scriptOut, scriptCfg, nCalls, initStarted,
                    aborted >>

\* the callable is entered with the plugin handle and the new configuration
\* text.
rc_call(t) ==
    /\ At(t, "rc_call")
    /\ Upd(t, [fr[t] EXCEPT !.pc = "py_reconfigure_first", !.invoked = TRUE,
                  !.pyArgs = << "HANDLE", "new" >>])
    /\ UNCHANGED << globals, nCalls, initStarted >>

\* script plugin_reconfigure, first half: it raises before changing
\* anything, or stores the first half of the new configuration.
py_reconfigure_first(t) ==
    /\ At(t, "py_reconfigure_first")
    /\ \E ok \in BOOLEAN :
         IF ok
         THEN /\ scriptCfg' = << fr[t].pyArgs[2], scriptCfg[2] >>
              /\ pyErr' = pyErr
              /\ Upd(t, [fr[t] EXCEPT !.pc = "py_reconfigure_second"])
         ELSE /\ scriptCfg' = scriptCfg
              /\ pyErr' = TRUE
              /\ Upd(t, [fr[t] EXCEPT !.pc = "rc_result",
                            !.outcome = "failed", !.raised = TRUE])
    /\ UNCHANGED << pModule, sPluginName, pyInit, gil, modAttr, counter,
                    nInvoked, scriptOut, nCalls, initStarted, aborted >>

\* script plugin_reconfigure, second half: stores the rest and returns.
py_reconfigure_second(t) ==
    /\ At(t, "py_reconfigure_second")
    /\ scriptCfg' = << scriptCfg[1], fr[t].pyArgs[2] >>
    /\ Upd(t, [fr[t] EXCEPT !.pc = "rc_result", !.outcome = "value",
                  !.pReturn = "RESULT", !.refs = @ \cup { "pReturn" }])
    /\ UNCHANGED << pModule, sPluginName, pyInit, gil, pyErr, modAttr,
                    counter, nInvoked, scriptOut, nCalls, initStarted,
                    aborted >>

\* no result -> error entry and drain the pending error; a result -> debug
\* entry; the references of the call are dropped.
rc_result(t) ==
    /\ At(t, "rc_result")
    /\ IF fr[t].outcome = "failed"
       THEN /\ pyErr' = logErrorMessage_err(pyErr)
            /\ Upd(t, [fr[t] EXCEPT !.pc = "rc_release", !.pFunc = "NULL",
                          !.pReturn = "NULL", !.refs = {},
                          !.log = logErrorMessage_log(
                                     Logged(@, "error", "plugin_reconfigure"))])
       ELSE /\ pyErr' = pyErr
            /\ Upd(t, [fr[t] EXCEPT !.pc = "rc_release", !.pFunc = "NULL",
                          !.pReturn = "NULL", !.refs = {},
                          !.log = Logged(@, "debug", "got result object")])
    /\ UNCHANGED << pModule, sPluginName, pyInit, gil, modAttr, counter,
                    nInvoked, scriptOut, scriptCfg, nCalls, initStarted,
                    aborted >>

\* the lock is released last and the call returns.
rc_release(t) ==
    /\ At(t, "rc_release")
    /\ Release(t)
    /\ Upd(t, Return([fr[t] EXCEPT !.nRel = @ + 1], "void"))
    /\ UNCHANGED << pModule, sPluginName, pyInit, pyErr, modAttr, counter,
                    nInvoked, scriptOut, scriptCfg, nCalls, initStarted,
                    aborted >>

\* ------------------------------------------------------- specification
\* lines 30-31: pModule = NULL, sPluginName empty; no runtime yet.
Init ==
    /\ pModule = "NULL"
    /\ sPluginName = ""
    /\ pyInit = FALSE
    /\ gil = 0
    /\ pyErr = FALSE
    /\ modAttr = [ plugin_init |-> "absent", plugin_ingest |-> "absent" ]
    /\ counter = 0
    /\ nInvoked = 0
    /\ scriptOut = FALSE
    /\ scriptCfg = << "prior", "prior" >>
    /\ nCalls = 0
    /\ initStarted = FALSE
    /\ aborted = FALSE
    /\ fr = [ t \in Threads |-> NewFrame("none") ]

Step(t) ==
    \/ Call_PluginInterfaceInit(t)
    \/ pi_setname(t)
    \/ pi_getenv(t)
    \/ pi_initialize(t)
    \/ pi_savethread(t)
    \/ pi_ensure(t)
    \/ pi_syspath(t)
    \/ pi_argv(t)
    \/ pi_import_call(t)
    \/ pi_import_return(t)
    \/ pi_checkmodule(t)
    \/ pi_release(t)
    \/ Call_ResolveSymbol(t)
    \/ Call_ingest(t)
    \/ ing_checkmodule(t)
    \/ ing_ensure(t)
    \/ ing_getattr(t)
    \/ ing_callable(t)
    \/ ing_fail(t)
    \/ ing_fail_release(t)
    \/ ing_marshal(t)
    \/ ing_call(t)
    \/ py_ingest_read(t)
    \/ py_ingest_write(t)
    \/ ing_clearfunc(t)
    \/ ing_delete(t)
    \/ ing_result(t)
    \/ ing_clearret(t)
    \/ ing_release(t)
    \/ Call_init(t)
    \/ init_checkmodule(t)
    \/ init_ensure(t)
    \/ init_getattr(t)
    \/ init_callable(t)
    \/ init_fail(t)
    \/ init_fail_release(t)
    \/ init_capsules(t)
    \/ init_call(t)
    \/ py_init(t)
    \/ init_clear(t)
    \/ init_result(t)
    \/ init_release(t)
    \/ Call_reconfigure(t)
    \/ rc_checkmodule(t)
    \/ rc_ensure(t)
    \/ rc_getattr(t)
    \/ rc_fail(t)
    \/ rc_call(t)
    \/ py_reconfigure_first(t)
    \/ py_reconfigure_second(t)
    \/ rc_result(t)
    \/ rc_release(t)

Next == \E t \in Threads : Step(t)

Spec == Init /\ [][Next]_vars

\* A step of thread t inside a call it has started: native code between two
\* runtime calls, or script code, both of which run to their end once
\* started.
Running(t) == ~Outside(t) /\ Step(t)

\* Scheduling: a thread inside a call keeps taking steps (the host is not
\* obliged to start calls), and a thread waiting for the execution lock gets
\* it if the lock is free again and again.
Fairness ==
    \A t \in Threads :
        /\ WF_vars(Running(t))
        /\ SF_vars(ing_ensure(t))
        /\ SF_vars(init_ensure(t))
        /\ SF_vars(rc_ensure(t))
        /\ SF_vars(pi_ensure(t))

FairSpec == Init /\ [][Next]_vars /\ Fairness


\* ================================================================ claims
Dispatchers == { "filter_plugin_init_fn", "filter_plugin_ingest_fn" }

\* Labels at which a thread is about to enter, or is inside, script code:
\* attribute lookup, callable check, callable invocation, module import.
ScriptLabels ==
    { "ing_getattr", "ing_callable", "ing_call", "py_ingest_read",
      "py_ingest_write", "init_getattr", "init_callable", "init_call",
      "py_init", "pi_import", "py_import", "rc_getattr", "rc_call",
      "py_reconfigure_first", "py_reconfigure_second" }

InScript(t) == fr[t].pc \in ScriptLabels

InIngestScript(t) == fr[t].pc \in { "py_ingest_read", "py_ingest_write" }

\* The value a dispatcher returns when it has nothing to give back.
Inert(o) == IF o = "filter_plugin_init_fn" THEN "NULL" ELSE "void"

\* C1: a thread is inside script code only while it holds the execution
\* lock, at most one thread is inside script code at a time, and the
\* script-side counter equals the number of plugin_ingest invocations that
\* have completed their increment (no update is lost).
C1_ScriptSerialized ==
    /\ \A t \in Threads : InScript(t) => gil = t
    /\ Cardinality({ t \in Threads : InScript(t) }) <= 1
    /\ counter = nInvoked - Cardinality({ t \in Threads : InIngestScript(t) })

\* C1 witness: one thread is between the read and the write of the counter
\* inside plugin_ingest while another ingest call waits for the lock.
C1_Witness ==
    \E t \in Threads, u \in Threads :
        /\ t # u
        /\ fr[t].pc = "py_ingest_write"
        /\ fr[u].pc = "ing_ensure"

\* C2: a thread that is not inside a call does not hold the execution lock
\* and has released it as often as it acquired it; inside a call it holds
\* the lock exactly while it has one acquisition outstanding; and the final
\* release is the last step of the call (a dispatcher that has released is
\* back in the host, PluginInterfaceInit is after its second release).
C2_LockReleasedOnReturn ==
    \A t \in Threads :
        /\ Outside(t) => (gil # t /\ fr[t].nAcq = fr[t].nRel)
        /\ fr[t].nRel <= fr[t].nAcq /\ fr[t].nAcq <= fr[t].nRel + 1
        /\ (gil = t) <=> (fr[t].nAcq = fr[t].nRel + 1)
        /\ (fr[t].op \in Dispatchers /\ fr[t].nRel >= 1)
              => (fr[t].pc = "done" /\ fr[t].nAcq = 1 /\ fr[t].nRel = 1)
        /\ (fr[t].op = "PluginInterfaceInit" /\ fr[t].nRel >= 2)
              => (fr[t].pc = "done" /\ fr[t].nAcq = 2 /\ fr[t].nRel = 2)

\* C2 witness: an ingest call has returned through the missing-callable exit
\* after taking the lock, while PluginInterfaceInit has returned as well.
C2_Witness ==
    \E t \in Threads, u \in Threads :
        /\ fr[t].op = "filter_plugin_ingest_fn" /\ fr[t].pc = "done"
        /\ fr[t].nAcq = 1 /\ fr[t].outcome = "none"
        /\ fr[u].op = "PluginInterfaceInit" /\ fr[u].pc = "done"
        /\ fr[u].nAcq = 2

\* C3: while the module handle is null, a dispatcher call is either still
\* at its module check or has returned its inert value with exactly one
\* log entry, of fatal severity, without ever acquiring the execution lock
\* or entering a script callable.
C3_NullModuleRejected ==
    \A t \in Threads :
        (fr[t].op \in Dispatchers /\ pModule = "NULL") =>
            \/ fr[t].pc \in { "ing_checkmodule", "init_checkmodule" }
            \/ /\ fr[t].pc = "done"
               /\ fr[t].ret = Inert(fr[t].op)
               /\ Len(fr[t].log) = 1
               /\ CountSev(fr[t].log, "fatal") = 1
               /\ fr[t].nAcq = 0
               /\ ~fr[t].invoked
               /\ gil # t

\* C3 witness: with the module handle null, an ingest call and an init call
\* have both returned.
C3_Witness ==
    \E t \in Threads, u \in Threads :
        /\ pModule = "NULL"
        /\ fr[t].op = "filter_plugin_ingest_fn" /\ fr[t].pc = "done"
        /\ fr[u].op = "filter_plugin_init_fn" /\ fr[u].pc = "done"


IngestFrame(t) == fr[t].op = "filter_plugin_ingest_fn"
InitFrame(t)   == fr[t].op = "filter_plugin_init_fn"
LoadFrame(t)   == fr[t].op = "PluginInterfaceInit"

HasEntry(l, sev, msg) == \E i \in 1..Len(l) : l[i] = << sev, msg >>

C5_BatchFreedOnReturn ==
    \A t \in Threads :
        (IngestFrame(t) /\ fr[t].pc = "done") => fr[t].data.alloc = "freed"

\* C6: with a module whose plugin_ingest (plugin_init) is absent or not
\* invocable, an ingest (init) call never marshals, never enters a script
\* callable and never has the output callback invoked; once past the module
\* check it returns the inert value with the lock released and a fatal
\* "Cannot call" entry as its last log entry.
C6_MissingCallable ==
    \A t \in Threads :
        /\ (IngestFrame(t) /\ pModule = "MOD"
               /\ modAttr.plugin_ingest # "callable") =>
             /\ fr[t].pc \in { "ing_checkmodule", "ing_ensure", "ing_getattr",
                               "ing_callable", "ing_fail",
                               "ing_fail_release", "done" }
             /\ ~fr[t].invoked /\ fr[t].cb = "none"
             /\ "readingsList" \notin fr[t].refs
             /\ (fr[t].pc = "done" /\ fr[t].nAcq = 1) =>
                  /\ fr[t].ret = "void" /\ gil # t /\ fr[t].nRel = 1
                  /\ fr[t].log[Len(fr[t].log)] = << "fatal", "Cannot call" >>
        /\ (InitFrame(t) /\ pModule = "MOD"
               /\ modAttr.plugin_init # "callable") =>
             /\ fr[t].pc \in { "init_checkmodule", "init_ensure",
                               "init_getattr", "init_callable", "init_fail",
                               "init_fail_release", "done" }
             /\ ~fr[t].invoked /\ fr[t].cb = "none"
             /\ fr[t].refs \subseteq { "pFunc" }
             /\ (fr[t].pc = "done" /\ fr[t].nAcq = 1) =>
                  /\ fr[t].ret = "NULL" /\ gil # t /\ fr[t].nRel = 1
                  /\ fr[t].log[Len(fr[t].log)] = << "fatal", "Cannot call" >>

\* C6 witness: an ingest call against a module whose plugin_ingest exists
\* but is not invocable, and an init call against a module without
\* plugin_init, have both returned after taking the lock.
C6_Witness ==
    \E t \in Threads, u \in Threads :
        /\ modAttr.plugin_ingest = "notcallable"
        /\ modAttr.plugin_init = "absent"
        /\ IngestFrame(t) /\ fr[t].pc = "done" /\ fr[t].nAcq = 1
        /\ InitFrame(u) /\ fr[u].pc = "done" /\ fr[u].nAcq = 1

\* C7: a dispatcher call whose callable invocation gave no result returns
\* the inert value with exactly one error entry and no fatal entry, with the
\* module handle still set and the lock released for the next caller; init
\* returns a non-null handle exactly when the invocation gave a value.
C7_InvocationFailure ==
    \A t \in Threads :
        /\ (fr[t].op \in Dispatchers /\ fr[t].pc = "done"
               /\ fr[t].outcome = "failed") =>
             /\ CountSev(fr[t].log, "error") = 1
             /\ CountSev(fr[t].log, "fatal") = 0
             /\ fr[t].ret = Inert(fr[t].op)
             /\ pModule = "MOD"
             /\ gil # t
        /\ (InitFrame(t) /\ fr[t].pc = "done") =>
             ((fr[t].ret # "NULL") <=> (fr[t].outcome = "value"))

\* C7 witness: an init call has failed in the script and returned, and a
\* later ingest call has acquired the lock and is inside its callable.
C7_Witness ==
    \E t \in Threads, u \in Threads :
        /\ InitFrame(t) /\ fr[t].pc = "done" /\ fr[t].outcome = "failed"
        /\ fr[t].invoked
        /\ fr[u].pc = "py_ingest_read" /\ gil = u

\* C8: whenever the execution lock is free the runtime has no pending
\* error, and a call during which the runtime raised an error has, by its
\* return, logged the error's detail through logErrorMessage.
C8_NoPendingError ==
    /\ (gil = 0 => ~pyErr)
    /\ \A t \in Threads :
         (fr[t].pc = "done" /\ fr[t].raised) =>
             HasEntry(fr[t].log, "detail", "logErrorMessage")

\* C8 witness: an ingest call whose callable raised has returned and the
\* lock is free.
C8_Witness ==
    \E t \in Threads :
        /\ IngestFrame(t) /\ fr[t].pc = "done" /\ fr[t].invoked
        /\ fr[t].raised /\ gil = 0

KnownSymbols ==
    { "plugin_info", "plugin_init", "plugin_shutdown", "plugin_reconfigure",
      "plugin_ingest" }

\* C9: a resolved name among the five entry points gives a non-null
\* function and no log entry (plugin_init and plugin_ingest give the two
\* dispatchers of this file); plugin_start gives null with exactly one
\* entry, a warning; any other name gives null with exactly one entry, a
\* fatal one.
C9_ResolveSymbol ==
    \A t \in Threads :
        (fr[t].op = "PluginInterfaceResolveSymbol") =>
            /\ fr[t].pc = "done"
            /\ fr[t].sym \in KnownSymbols =>
                 (fr[t].ret # "NULL" /\ fr[t].log = << >>)
            /\ fr[t].sym = "plugin_init" => fr[t].ret = "filter_plugin_init_fn"
            /\ fr[t].sym = "plugin_ingest"
                 => fr[t].ret = "filter_plugin_ingest_fn"
            /\ fr[t].sym = "plugin_start" =>
                 /\ fr[t].ret = "NULL" /\ Len(fr[t].log) = 1
                 /\ CountSev(fr[t].log, "warn") = 1
                 /\ CountSev(fr[t].log, "fatal") = 0
            /\ fr[t].sym \notin (KnownSymbols \cup { "plugin_start" }) =>
                 /\ fr[t].ret = "NULL" /\ Len(fr[t].log) = 1
                 /\ CountSev(fr[t].log, "fatal") = 1

\* C9 witness: plugin_start and an unknown name have both been resolved.
C9_Witness ==
    \E t \in Threads, u \in Threads :
        /\ fr[t].op = "PluginInterfaceResolveSymbol"
        /\ fr[t].sym = "plugin_start"
        /\ fr[u].op = "PluginInterfaceResolveSymbol"
        /\ fr[u].sym = "not_a_real_symbol"

\* PluginInterfaceInit has returned to the host with a value.
Loaded(t) == LoadFrame(t) /\ fr[t].pc = "done" /\ fr[t].ret # "exception"

\* C10: PluginInterfaceInit returns the stored module handle.  When the
\* import failed it has logged the error detail and then a fatal entry,
\* holds no lock and leaves no error pending, and from then on every
\* dispatcher call is on the null-module path: it never takes the lock or
\* enters a callable and returns inert with one fatal entry.  When the
\* import succeeded the returned handle is non-null and nothing fatal was
\* logged.
C10_ImportFailureInert ==
    \A t \in Threads :
        Loaded(t) =>
            /\ fr[t].ret = pModule
            /\ gil # t
            /\ fr[t].ret = "NULL" =>
                 /\ fr[t].log[Len(fr[t].log)] = << "fatal", "cannot import" >>
                 /\ fr[t].log[Len(fr[t].log) - 1]
                       = << "detail", "logErrorMessage" >>
                 /\ ~pyErr
                 /\ \A u \in Threads :
                      fr[u].op \in Dispatchers =>
                          /\ fr[u].nAcq = 0 /\ ~fr[u].invoked
                          /\ fr[u].pc \in { "ing_checkmodule",
                                            "init_checkmodule", "done" }
                          /\ fr[u].pc = "done" =>
                               /\ fr[u].ret = Inert(fr[u].op)
                               /\ fr[u].log
                                    = << << "fatal", "pModule is NULL" >> >>
            /\ fr[t].ret # "NULL" =>
                 (fr[t].ret = "MOD" /\ CountSev(fr[t].log, "fatal") = 0)

\* C10 witness: the import failed, PluginInterfaceInit returned null, and a
\* later ingest call has returned.
C10_Witness ==
    \E t \in Threads, u \in Threads :
        /\ Loaded(t) /\ fr[t].ret = "NULL"
        /\ IngestFrame(u) /\ fr[u].pc = "done"

\* ------------------------------------------------------------------ C11
ReconfFrame(t) == fr[t].op = "plugin_reconfigure_fn"

Mixed == scriptCfg[1] # scriptCfg[2]

C11_BothReturned ==
    \E t \in Threads, u \in Threads :
        /\ IngestFrame(t) /\ fr[t].pc = "done" /\ fr[t].invoked
        /\ ReconfFrame(u) /\ fr[u].pc = "done" /\ fr[u].outcome = "value"
        /\ scriptCfg = << "new", "new" >>

\* ------------------------------------------------------------------ C12
AfterIngestCall ==
    { "ing_clearfunc", "ing_delete", "ing_result", "ing_clearret",
      "ing_release" }

\* C12: while script plugin_ingest runs, its first argument is the plugin
\* handle the host passed and its second argument is a non-null sequence of
\* the same length as the batch whose i-th element is made from the i-th
\* reading of the batch; and for every batch, the empty one included, a call
\* that got past marshalling with a non-null handle has entered the callable.
C12_BatchMarshalled ==
    \A t \in Threads :
        /\ (IngestFrame(t) /\ InIngestScript(t)) =>
              /\ fr[t].data.alloc = "allocated"
              /\ ~fr[t].readingsList.null
              /\ Len(fr[t].pyArgs) = 2
              /\ fr[t].pyArgs[1] = fr[t].handle
              /\ fr[t].handle # "NULL"
              /\ Len(fr[t].pyArgs[2]) = Len(fr[t].data.recs)
              /\ \A i \in 1..Len(fr[t].data.recs) :
                    fr[t].pyArgs[2][i] = [ reading |-> fr[t].data.recs[i] ]
        /\ (IngestFrame(t) /\ fr[t].pc \in AfterIngestCall
                           /\ fr[t].handle # "NULL") => fr[t].invoked

\* C12 witness: script plugin_ingest is running on the empty batch.
C12_Witness ==
    \E t \in Threads :
        /\ IngestFrame(t) /\ InIngestScript(t)
        /\ fr[t].data.recs = << >> /\ fr[t].pyArgs[2] = << >>

\* C12, a batch of the largest size is inside the callable with its
\* readings in order.
C12_FullBatch ==
    \E t \in Threads :
        /\ IngestFrame(t) /\ InIngestScript(t)
        /\ Len(fr[t].pyArgs[2]) = MaxBatch

\* ------------------------------------------------------------------ C13
\* C13 as claimed: when FOGLAMP_ROOT is absent, PluginInterfaceInit returns
\* a null module handle with a fatal log entry, the runtime is not brought up
\* and no module is imported, and the process does not fault.
C13_AbsentRootReported ==
    \A t \in Threads :
        (LoadFrame(t) /\ fr[t].env = "absent") =>
            /\ ~aborted
            /\ fr[t].pc = "done"
            /\ fr[t].ret = "NULL"
            /\ CountSev(fr[t].log, "fatal") >= 1
            /\ ~pyInit /\ pModule = "NULL"

\* What the source does hold to when FOGLAMP_ROOT is absent: the runtime is
\* not brought up, no module is imported, the lock is never taken and
\* nothing is logged; the call faults or leaves by an exception.
C13_AbsentRootFaults ==
    \A t \in Threads :
        (LoadFrame(t) /\ fr[t].env = "absent") =>
            /\ ~pyInit /\ pModule = "NULL" /\ gil = 0
            /\ fr[t].log = << >>
            /\ \/ (aborted /\ fr[t].pc = "fault")
               \/ (fr[t].pc = "done" /\ fr[t].ret = "exception")

\* ------------------------------------------------------------------ C14
\* C14 as claimed: when filter_plugin_ingest_fn or filter_plugin_init_fn has
\* returned, the call owns no script-side reference any more, except that
\* init still owns the value it returned as the plugin handle.
C14_ReferencesReleased ==
    \A t \in Threads :
        (fr[t].op \in Dispatchers /\ fr[t].pc = "done") =>
            fr[t].refs \subseteq
                (IF InitFrame(t) /\ fr[t].ret # "NULL"
                 THEN { "pReturn" } ELSE {})

\* What the source does hold to: the only reference a returned call still
\* owns besides init's handle is the marshalled readings list, and that one
\* exactly when plugin_ingest returned a value (line 106 releases it only
\* when the call gave no result).
C14_OnlyListLeaks ==
    \A t \in Threads :
        /\ (InitFrame(t) /\ fr[t].pc = "done") =>
              fr[t].refs = (IF fr[t].ret # "NULL" THEN { "pReturn" } ELSE {})
        /\ (IngestFrame(t) /\ fr[t].pc = "done") =>
              fr[t].refs = (IF fr[t].outcome = "value"
                            THEN { "readingsList" } ELSE {})

\* ------------------------------------------------------------------ C15
LoadUnderLock ==
    { "pi_syspath", "pi_argv", "pi_import", "py_import", "pi_checkmodule",
      "pi_release" }

\* C15: in PluginInterfaceInit the lock is held after the runtime came up
\* (one acquisition, no release), is not held after the thread-state save
\* (one acquisition, one release), is held again through the search-path
\* updates, the argument-vector setup, the import and its check (two
\* acquisitions, one release), and is not held by the caller once the
\* function has returned (two acquisitions, two releases).
C15_LoadLockSequence ==
    \A t \in Threads :
        LoadFrame(t) =>
            /\ fr[t].pc \in { "pi_setname", "pi_getenv", "pi_initialize" }
                  => (gil # t /\ fr[t].nAcq = 0 /\ fr[t].nRel = 0)
            /\ fr[t].pc = "pi_savethread"
                  => (gil = t /\ fr[t].nAcq = 1 /\ fr[t].nRel = 0)
            /\ fr[t].pc = "pi_ensure"
                  => (gil = 0 /\ fr[t].nAcq = 1 /\ fr[t].nRel = 1)
            /\ fr[t].pc \in LoadUnderLock
                  => (gil = t /\ fr[t].nAcq = 2 /\ fr[t].nRel = 1)
            /\ Loaded(t)
                  => (gil # t /\ fr[t].nAcq = 2 /\ fr[t].nRel = 2)

\* C15 witness: PluginInterfaceInit has returned the module and a later
\* dispatcher call has taken the lock.
C15_Witness ==
    \E t \in Threads, u \in Threads :
        /\ Loaded(t) /\ fr[t].ret = "MOD"
        /\ fr[u].op \in Dispatchers /\ gil = u

\* ------------------------------------------------------------------ C16
ResolveFrame(t) == fr[t].op = "PluginInterfaceResolveSymbol"

\* The frame of thread t changed in this step.
Stepped(t) == fr'[t] # fr[t]

\* C16: every step that changes the module handle or the plugin name is a
\* step of a PluginInterfaceInit call; a step of PluginInterfaceResolveSymbol
\* changes no global of the bridge, takes no lock, and leaves a result and a
\* log that equal those of every other resolution of the same name still on
\* record, whether made before or after PluginInterfaceInit.
C16_Frame ==
    [][ /\ (pModule' # pModule \/ sPluginName' # sPluginName) =>
              \E t \in Threads : LoadFrame(t) /\ Stepped(t)
        /\ \A t \in Threads :
              (Stepped(t) /\ fr'[t].op = "PluginInterfaceResolveSymbol") =>
                  /\ globals' = globals
                  /\ fr'[t].nAcq = 0 /\ fr'[t].nRel = 0
                  /\ fr'[t].pc = "done"
                  /\ \A u \in Threads :
                        (ResolveFrame(u) /\ fr[u].sym = fr'[t].sym) =>
                            (fr[u].ret = fr'[t].ret /\ fr[u].log = fr'[t].log)
      ]_vars

\* C16 witness: a name was resolved to a dispatcher before
\* PluginInterfaceInit was ever called, and nothing of the bridge has changed.
C16_Witness ==
    \E t \in Threads :
        /\ ~initStarted /\ pModule = "NULL" /\ sPluginName = "" /\ gil = 0
        /\ ResolveFrame(t) /\ fr[t].pc = "done"
        /\ fr[t].sym = "plugin_ingest"
        /\ fr[t].ret = "filter_plugin_ingest_fn"

\* C16, the same name resolved twice with the module loaded.
C16_ResolvedAfterLoad ==
    \E t \in Threads, u \in Threads :
        /\ t # u /\ pModule = "MOD"
        /\ ResolveFrame(t) /\ ResolveFrame(u)
        /\ fr[t].sym = "plugin_ingest" /\ fr[u].sym = "plugin_ingest"

\* ------------------------------------------------------------------ C17
\* C17: no call records a native invocation of the output callback; the
\* callback has been invoked during a call only from inside script
\* plugin_ingest and only after script plugin_init received the wrapped
\* pair; script plugin_init is entered with (configuration text, wrapped
\* output handle, wrapped output callback) in this order; and an ingest call
\* that returned after its callable gave a value has logged neither an error
\* nor a fatal entry, whether or not the callback was invoked.
C17_OutputOnlyFromScript ==
    \A t \in Threads :
        /\ fr[t].cb \in { "none", "script" }
        /\ fr[t].cb = "script" =>
              (IngestFrame(t) /\ fr[t].invoked /\ scriptOut)
        /\ (InitFrame(t) /\ fr[t].pc = "py_init") =>
              fr[t].pyArgs = << "config", "CAP_OUTHANDLE", "CAP_OUTPUT" >>
        /\ (IngestFrame(t) /\ fr[t].pc = "done" /\ fr[t].outcome = "value")
              => /\ CountSev(fr[t].log, "error") = 0
                 /\ CountSev(fr[t].log, "fatal") = 0
                 /\ fr[t].ret = "void"

\* C17 witness: the script holds the wrapped output pair, and an ingest call
\* has returned successfully without the callback having been invoked.
C17_Witness ==
    \E t \in Threads :
        /\ scriptOut
        /\ IngestFrame(t) /\ fr[t].pc = "done" /\ fr[t].outcome = "value"
        /\ fr[t].cb = "none"

\* C17, the script forwarded a batch through the callback.
C17_Forwarded ==
    \E t \in Threads : IngestFrame(t) /\ fr[t].cb = "script"

\* ------------------------------------------------------------------ C18
EnsureLabels == { "ing_ensure", "init_ensure", "rc_ensure", "pi_ensure" }

\* PluginInterfaceInit has been called and has returned.
LoadReturned ==
    /\ initStarted
    /\ \A u \in Threads : LoadFrame(u) => Outside(u)

InDispatcher(t) == fr[t].op \in Dispatchers /\ ~Outside(t)

\* C18: the execution lock is never held by a thread that is outside every
\* call, so a thread waiting for the lock waits for a thread that is still
\* inside a call; and once PluginInterfaceInit has returned, every
\* filter_plugin_init_fn or filter_plugin_ingest_fn call in progress
\* eventually returns.
C18_AllReturn ==
    /\ [](\A u \in Threads : gil = u => ~Outside(u))
    /\ \A t \in Threads :
         (LoadReturned /\ InDispatcher(t)) ~> (fr[t].pc = "done")

\* C18 witness: after PluginInterfaceInit has returned, one dispatcher call
\* waits for the lock that another dispatcher call holds inside script code.
C18_Witness ==
    \E t \in Threads, u \in Threads :
        /\ LoadReturned
        /\ InDispatcher(t) /\ fr[t].pc \in EnsureLabels
        /\ InDispatcher(u) /\ gil = u /\ InScript(u)

\* ------------------------------------------------------------------ C19
\* What the module holds under the name a dispatcher looks up.
AttrOf(o) == IF o = "filter_plugin_init_fn" THEN modAttr.plugin_init
             ELSE modAttr.plugin_ingest

\* A dispatcher call that found the module loaded and has returned.
ReturnedFromLoaded(t) ==
    fr[t].op \in Dispatchers /\ fr[t].pc = "done" /\ fr[t].nAcq = 1

\* C19: a returned dispatcher call that found the module loaded has logged,
\* when its attribute is absent, exactly two fatal entries, 'Cannot find'
\* first and 'Cannot call' last, and no error or debug entry; when its
\* attribute exists but is not invocable, the one fatal entry 'Cannot call'
\* and nothing else; when it reached the invocation, no fatal entry and
\* exactly one entry that is error or debug, error exactly when the
\* invocation gave no result.
C19_LogCounts ==
    \A t \in Threads :
        ReturnedFromLoaded(t) =>
            LET l == fr[t].log
                k == AttrOf(fr[t].op)
            IN /\ k = "absent" =>
                    /\ CountSev(l, "fatal") = 2
                    /\ l[1] = << "fatal", "Cannot find" >>
                    /\ l[Len(l)] = << "fatal", "Cannot call" >>
                    /\ CountSev(l, "error") + CountSev(l, "debug") = 0
                    /\ ~fr[t].invoked
               /\ k = "notcallable" =>
                    /\ l = << << "fatal", "Cannot call" >> >>
                    /\ ~fr[t].invoked
               /\ k = "callable" =>
                    /\ fr[t].outcome \in { "value", "failed" }
                    /\ CountSev(l, "fatal") = 0
                    /\ CountSev(l, "error") + CountSev(l, "debug") = 1
                    /\ (CountSev(l, "error") = 1) = (fr[t].outcome = "failed")

\* C19 witness: an ingest call on a module without plugin_ingest has
\* returned with its two fatal entries.
C19_Witness ==
    \E t \in Threads :
        /\ ReturnedFromLoaded(t) /\ IngestFrame(t)
        /\ modAttr.plugin_ingest = "absent"
        /\ CountSev(fr[t].log, "fatal") = 2

\* C19, the other two paths: a not invocable attribute, and an invocation
\* that failed.
C19_NotInvocable ==
    \E t \in Threads :
        ReturnedFromLoaded(t) /\ AttrOf(fr[t].op) = "notcallable"

C19_InvocationFailed ==
    \E t \in Threads :
        /\ ReturnedFromLoaded(t) /\ AttrOf(fr[t].op) = "callable"
        /\ fr[t].outcome = "failed"

====
